---- MODULE Spec2Model ----
(***************************************************************************)
(* Model of src/static/security.js: the SecurityMonitor singleton, its     *)
(* event listeners, its two polling intervals, the asynchronous camera     *)
(* acquisition and the one-shot revocation sequence (triggerDestruction).  *)
(*                                                                         *)
(* Time is Date.now() in milliseconds.  The clock advances in quanta of    *)
(* CameraInterval (500 ms), the finest period the program schedules; an    *)
(* interval callback runs at the instant it is due or, the browser being   *)
(* busy or throttling timers, is held back to a later instant; any number  *)
(* of DOM events may be delivered at one instant.                          *)
(*                                                                         *)
(* The program is explored in several environments (Environments below):   *)
(* each fixes how long the page is followed, which DOM events the viewer   *)
(* produces and which frames the camera shows.  The handlers are the same  *)
(* in all of them.                                                         *)
(***************************************************************************)
EXTENDS Integers, Sequences, FiniteSets

VARIABLES
    env,        \* the environment the page runs in (a name of Environments)
    boot,       \* which entry point the page called: "loaded" (none yet), "init", "initVerification"
    config,     \* SecurityMonitor.config
    state,      \* SecurityMonitor.state
    intervals,  \* the setInterval callbacks: due time of the next run, Null = not set
    media,      \* navigator.mediaDevices: pending getUserMedia calls, streams with live tracks,
                \* whether a frame was ever drawn from a stream whose tracks were stopped,
                \* since when the frames drawn have been blocked without a break
    dom,        \* document.body.style.border, document.body content, window.location
    net,        \* navigator.sendBeacon availability (and whether the call throws), beacons
                \* sent, destroy fetch, alert fetches
    rev,        \* observation of the revocation sequence: runs, reason, steps reached,
                \* whether an exception ended it, redirect timeout
    now         \* Date.now()

vars == <<env, boot, config, state, intervals, media, dom, net, rev, now>>

----------------------------------------------------------------------------
(* Program constants *)

\* null, and the falsy value tested by `!t.state.occlusionStart`
Null == 0
\* config.idleTimeout
IdleTimeoutDefault == 6000
\* config.occlusionThreshold
OcclusionThresholdDefault == 3000
\* setInterval(..., 1000) of startIdleTimer
IdleInterval == 1000
\* setInterval(..., 500) of initCamera
CameraInterval == 500
\* setTimeout(..., 2000) before window.location.replace
RedirectDelay == 2000
\* lower edge of the warning window: duration > 1000
WarnAfter == 1000
\* upper edge of the warning window: duration < 3000
WarnBefore == 3000
\* mean < 15
MeanThreshold == 15
\* variance < 40
VarianceThreshold == 40

(* Bounds of the model *)

\* clock quanta the page is followed for when the viewer is idle
MaxSteps == 14
\* clock quanta the page is followed for when the camera is obstructed
MaxOcclusionSteps == 10
\* clock quanta the page is followed for when keys are pressed
MaxKeySteps == 1
\* initCamera calls per page (one by init; manual starts in verification mode)
MaxCameraCalls == 2
\* alert requests sent by Print-Screen key releases
MaxAlerts == 1

\* Date.now() when the script is loaded (a positive epoch time)
LoadTime == CameraInterval

Streams == 1..(MaxCameraCalls + 1)

\* frame statistics (mean, variance) offered to the sampling tick
AllFrames == {<<10, 100>>, <<200, 10>>, <<200, 100>>, <<15, 40>>}
ClearFrames == {<<200, 100>>}

\* keyboard inputs: <<key, ctrlKey, shiftKey, metaKey>>
AllChords ==
    { <<"F12", FALSE, FALSE, FALSE>>, <<"I", TRUE, TRUE, FALSE>>, <<"C", TRUE, TRUE, FALSE>>,
      <<"p", TRUE, FALSE, FALSE>>, <<"p", FALSE, FALSE, TRUE>>,
      <<"s", TRUE, FALSE, FALSE>>, <<"s", FALSE, FALSE, TRUE>>,
      <<"S", FALSE, TRUE, TRUE>>, <<"s", FALSE, TRUE, TRUE>>,
      <<"a", FALSE, FALSE, FALSE>>, <<"I", TRUE, FALSE, FALSE>> }
PlainChords == { <<"a", FALSE, FALSE, FALSE>> }
UpKeys == {"PrintScreen", "a"}

AllEvents == { "submit", "submitButton", "click", "visibilitychange", "blur", "keyup",
               "keydown", "contextmenu", "selectstart", "mousemove", "mousedown",
               "copy", "beforeunload" }
AllEntries == { "init", "initIdleOff", "initVerification" }

\* The environments: clock = quanta the page is followed for before
\* revocation (0: every event is delivered at the load instant); beacon =
\* whether navigator.sendBeacon exists; throws = whether calling it throws
\* (a TypeError: the URL does not parse or is not http(s)).
Environments ==
    { [ name |-> "events", clock |-> 0, entries |-> AllEntries,
        viewer |-> AllEvents, chords |-> AllChords, frames |-> AllFrames,
        thresholds |-> {OcclusionThresholdDefault}, beacon |-> BOOLEAN, throws |-> BOOLEAN ],
      [ name |-> "keys", clock |-> MaxKeySteps, entries |-> {"init"},
        viewer |-> {"keydown", "keyup"}, chords |-> AllChords, frames |-> ClearFrames,
        thresholds |-> {OcclusionThresholdDefault}, beacon |-> {TRUE}, throws |-> {FALSE} ],
      [ name |-> "idle", clock |-> MaxSteps, entries |-> AllEntries,
        viewer |-> {"mousemove", "mousedown", "keydown", "submit", "copy"}, chords |-> PlainChords,
        frames |-> ClearFrames,
        thresholds |-> {OcclusionThresholdDefault}, beacon |-> {TRUE}, throws |-> {FALSE} ],
      [ name |-> "occlusion", clock |-> MaxOcclusionSteps, entries |-> {"initIdleOff", "initVerification"},
        viewer |-> {"submit", "blur"}, chords |-> PlainChords, frames |-> AllFrames,
        thresholds |-> {OcclusionThresholdDefault, OcclusionThresholdDefault + 1000},
        beacon |-> {TRUE}, throws |-> {FALSE} ] }

Env == CHOOSE e \in Environments : e.name = env

MaxTime == LoadTime + Env.clock * CameraInterval

BorderRed == "5px solid red"

----------------------------------------------------------------------------
(* The state after the script is loaded *)

Init ==
    /\ env \in { e.name : e \in Environments }
    /\ boot = "loaded"
    /\ \E th \in Env.thresholds :
          config = [ alertUrl |-> "/alert",
                     idleTimeout |-> IdleTimeoutDefault,
                     occlusionThreshold |-> th,
                     disableIdle |-> FALSE,
                     isVerificationPage |-> FALSE ]
    /\ state = [ destroyed |-> FALSE,
                 cameraStream |-> Null,
                 lastActivity |-> LoadTime,
                 occlusionStart |-> Null,
                 verified |-> FALSE,
                 monitoringActive |-> FALSE,
                 submitting |-> FALSE,
                 cameraAccessFailed |-> FALSE ]
    /\ intervals = [ idle |-> Null, camera |-> [k \in Streams |-> Null] ]
    /\ media = [ pending |-> 0, calls |-> 0, acquired |-> 0, live |-> {},
                 staleRead |-> FALSE, blockedSince |-> Null ]
    /\ dom = [ border |-> "", body |-> "content", location |-> "page" ]
    /\ \E sb \in Env.beacon, bt \in Env.throws :
          /\ bt => sb
          /\ net = [ sendBeacon |-> sb, beaconThrows |-> bt, beacons |-> 0,
                     fetch |-> "none", alerts |-> 0 ]
    /\ rev = [ count |-> 0, reason |-> "", log |-> <<>>, thrown |-> FALSE,
               redirectDue |-> Null ]
    /\ now = LoadTime

----------------------------------------------------------------------------
(* The world a handler runs in, as one record, so that the calls a handler *)
(* makes compose in the order of the code.  event is the DOM event being   *)
(* handled: it lives for the one dispatch.                                 *)

World == [ config |-> config, state |-> state, media |-> media,
           dom |-> dom, net |-> net, rev |-> rev,
           event |-> [ defaultPrevented |-> FALSE ] ]

Commit(w) ==
    /\ env' = env
    /\ config' = w.config
    /\ state' = w.state
    /\ media' = w.media
    /\ dom' = w.dom
    /\ net' = w.net
    /\ rev' = w.rev

\* mutants of DestructionGuard: one test of the early return dropped
DestructionGuard_NoDestroyedTest(s) == ~s.monitoringActive \/ s.submitting
DestructionGuard_NoSubmittingTest(s) == s.destroyed \/ ~s.monitoringActive
DestructionGuard_NoMonitoringTest(s) == s.destroyed \/ s.submitting

\* the early return of triggerDestruction
DestructionGuard(s) == s.destroyed \/ ~s.monitoringActive \/ s.submitting

\* navigator.sendBeacon(...) is called and throws: the statements after it
\* are not reached (the function has no try/catch)
BeaconThrows(w) == w.net.sendBeacon /\ w.net.beaconThrows

\* the steps of the revocation sequence that are reached, in the order of the code
RevocationSteps(w) ==
    <<"border">>
    \o (IF w.state.cameraStream # Null THEN <<"stopTracks">> ELSE <<>>)
    \o <<"lockdownUI">>
    \o (IF w.net.sendBeacon THEN <<"beacon">> ELSE <<>>)
    \o (IF BeaconThrows(w) THEN <<>> ELSE <<"fetch">>)

triggerDestruction(w, reason) ==
    IF DestructionGuard(w.state) THEN w
    ELSE [ w EXCEPT
             !.state.destroyed = TRUE,
             !.dom.border = BorderRed,
             !.media.live = IF w.state.cameraStream # Null
                            THEN @ \ {w.state.cameraStream} ELSE @,
             !.dom.body = "lockdown",
             !.net.beacons = IF w.net.sendBeacon /\ ~BeaconThrows(w) THEN @ + 1 ELSE @,
             !.net.fetch = IF BeaconThrows(w) THEN @ ELSE "pending",
             !.rev.count = @ + 1,
             !.rev.reason = reason,
             !.rev.thrown = BeaconThrows(w),
             !.rev.log = @ \o RevocationSteps(w) ]

\* the call of triggerDestruction that took w to w1 threw: the rest of the
\* calling handler is not run
Threw(w, w1) == w1.rev.thrown /\ ~w.rev.thrown

sendAlert(w) ==
    IF w.state.destroyed THEN w
    ELSE [ w EXCEPT !.net.alerts = @ + 1 ]

resetIdle(w, t) == [ w EXCEPT !.state.lastActivity = t ]

\* listeners exist once bindEvents has run, and run until the page is left
Listening(kind) == boot # "loaded" /\ dom.location = "page" /\ kind \in Env.viewer

----------------------------------------------------------------------------
(* Entry points *)

\* the page's bootstrap script calls its entry point as the page loads
AtLoad == boot = "loaded" /\ now = LoadTime /\ dom.location = "page"

\* the call of initCamera up to its await: one more getUserMedia request
initCameraCall(w) ==
    [ w EXCEPT !.media.pending = @ + 1, !.media.calls = @ + 1 ]

\* mutant of StartsIdleTimer: the timer is started whatever the flag
StartsIdleTimer_Always(disableIdle) == TRUE

\* if (!disableIdle) this.startIdleTimer()
StartsIdleTimer(disableIdle) == ~disableIdle

\* init(fileId, destroyUrl, homeUrl, disableIdle): bindEvents, startIdleTimer
\* unless disabled, initCamera
init(disableIdle) ==
    /\ AtLoad
    /\ (IF disableIdle THEN "initIdleOff" ELSE "init") \in Env.entries
    /\ boot' = "init"
    /\ intervals' = [ intervals EXCEPT
                        !.idle = IF StartsIdleTimer(disableIdle) THEN now + IdleInterval ELSE @ ]
    /\ Commit(initCameraCall([ World EXCEPT !.config.disableIdle = disableIdle ]))
    /\ UNCHANGED now

\* initVerification(fileId, destroyUrl, homeUrl): bindEvents only
initVerification ==
    /\ AtLoad
    /\ "initVerification" \in Env.entries
    /\ boot' = "initVerification"
    /\ Commit([ World EXCEPT !.config.isVerificationPage = TRUE ])
    /\ UNCHANGED <<intervals, now>>

\* the verification page starts the camera on a user interaction
ManualCameraStart ==
    /\ boot = "initVerification"
    /\ dom.location = "page"
    /\ media.calls < MaxCameraCalls
    /\ Commit(initCameraCall(World))
    /\ UNCHANGED <<boot, intervals, now>>

----------------------------------------------------------------------------
(* initCamera after its await *)

\* getUserMedia resolved: store the stream, start monitoring, start sampling
CameraGranted ==
    /\ dom.location = "page"
    /\ media.pending > 0
    /\ LET k == media.acquired + 1 IN
       /\ Commit([ World EXCEPT
                     !.media.pending = @ - 1,
                     !.media.acquired = k,
                     !.media.live = @ \cup {k},
                     !.state.cameraStream = k,
                     !.state.monitoringActive = TRUE ])
       /\ intervals' = [ intervals EXCEPT !.camera[k] = now + CameraInterval ]
    /\ UNCHANGED <<boot, now>>

\* the catch block of initCamera
cameraCatch(w) == triggerDestruction(sendAlert(w), "Camera Access Denied or Failed")

\* getUserMedia rejected
CameraFailed ==
    /\ dom.location = "page"
    /\ media.pending > 0
    /\ Commit(cameraCatch([ World EXCEPT !.media.pending = @ - 1 ]))
    /\ UNCHANGED <<boot, intervals, now>>

----------------------------------------------------------------------------
(* bindEvents: one action per listener *)

Handled(w) == Commit(w) /\ UNCHANGED <<boot, intervals, now>>

\* e.preventDefault()
preventDefault(w) == [ w EXCEPT !.event.defaultPrevented = TRUE ]

\* 'submit', 'click' on a submit button
submitListener(w) == [ w EXCEPT !.state.submitting = TRUE ]

\* 'click': only an anchor target sets submitting
clickListener(w, tagName) ==
    IF tagName = "A" THEN [ w EXCEPT !.state.submitting = TRUE ] ELSE w

\* mutant of visibilityListener: the verification flag is not consulted
visibilityListener_AnyMode(w, hidden) ==
    IF hidden THEN triggerDestruction(w, "Tab Switch / Minimize") ELSE w

\* 'visibilitychange'
visibilityListener(w, hidden) ==
    IF hidden /\ ~w.config.isVerificationPage
    THEN triggerDestruction(w, "Tab Switch / Minimize")
    ELSE w

\* mutant of blurListener: the test of the verification flag inverted
blurListener_Inverted(w) ==
    IF w.config.isVerificationPage
    THEN triggerDestruction(w, "Window Focus Lost")
    ELSE w

\* 'blur'
blurListener(w) ==
    IF ~w.config.isVerificationPage
    THEN triggerDestruction(w, "Window Focus Lost")
    ELSE w

\* mutant of keyupListener: the threat is reported before the alert is sent
keyupListener_ThreatFirst(w, key) ==
    IF key = "PrintScreen"
    THEN LET w1 == triggerDestruction(w, "Screenshot Attempt")
         IN IF Threw(w, w1) THEN w1 ELSE sendAlert(w1)
    ELSE w

\* 'keyup'
keyupListener(w, key) ==
    IF key = "PrintScreen"
    THEN triggerDestruction(sendAlert(w), "Screenshot Attempt")
    ELSE w

IsDevTools(key, ctrl, shift, meta) ==
    key = "F12" \/ (ctrl /\ shift /\ (key = "I" \/ key = "C"))
IsPrint(key, ctrl, shift, meta) == (ctrl \/ meta) /\ key = "p"
IsSave(key, ctrl, shift, meta) == (ctrl \/ meta) /\ key = "s"
\* e.key.toLowerCase() === 's'
IsSnip(key, ctrl, shift, meta) == meta /\ shift /\ (key = "s" \/ key = "S")

\* 'keydown': the four shortcut tests in order, then resetIdle
keydownListener(w, t, key, ctrl, shift, meta) ==
    LET w1 == IF IsDevTools(key, ctrl, shift, meta)
              THEN triggerDestruction(preventDefault(w), "DevTools Shortcut") ELSE w
        w2 == IF ~Threw(w, w1) /\ IsPrint(key, ctrl, shift, meta)
              THEN triggerDestruction(preventDefault(w1), "Print Attempt") ELSE w1
        w3 == IF ~Threw(w, w2) /\ IsSave(key, ctrl, shift, meta)
              THEN triggerDestruction(preventDefault(w2), "Save Attempt") ELSE w2
        w4 == IF ~Threw(w, w3) /\ IsSnip(key, ctrl, shift, meta)
              THEN triggerDestruction(preventDefault(w3), "Snipping Tool Attempt (Win+Shift+S)")
              ELSE w3
    IN IF Threw(w, w4) THEN w4 ELSE resetIdle(w4, t)

\* mutant of copyListener: the threat is reported first, the default
\* action suppressed after
copyListener_ThreatFirst(w) ==
    LET w1 == triggerDestruction(w, "Clipboard Copy")
    IN IF Threw(w, w1) THEN w1 ELSE preventDefault(w1)

\* 'copy'
copyListener(w) == triggerDestruction(preventDefault(w), "Clipboard Copy")

\* 'beforeunload'
beforeunloadListener(w) ==
    IF ~w.state.destroyed /\ ~w.config.isVerificationPage
    THEN triggerDestruction(w, "Page Reload/Unload")
    ELSE w

OnSubmit == Listening("submit") /\ Handled(submitListener(World))

OnSubmitButtonClick == Listening("submitButton") /\ Handled(submitListener(World))

OnClick(tagName) == Listening("click") /\ Handled(clickListener(World, tagName))

OnVisibilityChange(hidden) ==
    Listening("visibilitychange") /\ Handled(visibilityListener(World, hidden))

OnBlur == Listening("blur") /\ Handled(blurListener(World))

\* Print-Screen releases that send an alert are counted up to MaxAlerts
OnKeyUp(key) ==
    /\ Listening("keyup")
    /\ key = "PrintScreen" /\ ~state.destroyed => net.alerts < MaxAlerts
    /\ Handled(keyupListener(World, key))

OnKeyDown(key, ctrl, shift, meta) ==
    /\ Listening("keydown")
    /\ <<key, ctrl, shift, meta>> \in Env.chords
    /\ Handled(keydownListener(World, now, key, ctrl, shift, meta))

\* 'contextmenu' and 'selectstart': preventDefault only
OnContextMenu == Listening("contextmenu") /\ Handled(preventDefault(World))
OnSelectStart == Listening("selectstart") /\ Handled(preventDefault(World))

\* 'mousemove' and 'mousedown'
OnMouseMove == Listening("mousemove") /\ Handled(resetIdle(World, now))
OnMouseDown == Listening("mousedown") /\ Handled(resetIdle(World, now))

OnCopy == Listening("copy") /\ Handled(copyListener(World))

OnBeforeUnload == Listening("beforeunload") /\ Handled(beforeunloadListener(World))

----------------------------------------------------------------------------
(* The polling intervals *)

\* mutant of IdleExceeded: >= for >
IdleExceeded_AtLeast(t, s, c) == t - s.lastActivity >= c.idleTimeout

\* Date.now() - lastActivity > idleTimeout
IdleExceeded(t, s, c) == t - s.lastActivity > c.idleTimeout

\* mutant of idleCallback: until monitoring is active a tick restarts the
\* idle interval
idleCallback_ResetsBeforeConsent(w, t) ==
    IF ~w.state.monitoringActive THEN resetIdle(w, t)
    ELSE IF t - w.state.lastActivity > w.config.idleTimeout
    THEN triggerDestruction(w, "Idle Timeout (6s)")
    ELSE w

\* the callback of startIdleTimer
idleCallback(w, t) ==
    IF IdleExceeded(t, w.state, w.config)
    THEN triggerDestruction(w, "Idle Timeout (6s)")
    ELSE w

IdleTick ==
    /\ dom.location = "page"
    /\ intervals.idle # Null
    /\ intervals.idle <= now
    /\ Commit(idleCallback(World, now))
    /\ intervals' = [ intervals EXCEPT !.idle = @ + IdleInterval ]
    /\ UNCHANGED <<boot, now>>

\* setInterval promises no less than its period: the browser holds a due
\* callback back (busy main thread, timer throttling) to a later instant
IdleTickLate ==
    /\ dom.location = "page"
    /\ ~state.destroyed
    /\ intervals.idle # Null
    /\ intervals.idle <= now
    /\ now < MaxTime
    /\ intervals' = [ intervals EXCEPT !.idle = @ + CameraInterval ]
    /\ UNCHANGED <<env, boot, config, state, media, dom, net, rev, now>>

\* mutant of isBlocked: the two comparisons inclusive
isBlocked_Inclusive(mean, variance) == mean <= MeanThreshold \/ variance <= VarianceThreshold

\* (mean < 15) || (variance < 40)
isBlocked(mean, variance) == mean < MeanThreshold \/ variance < VarianceThreshold

\* duration > 1000 && duration < 3000
InWarnWindow(duration) == duration > WarnAfter /\ duration < WarnBefore

\* mutant of OcclusionExceeded: >= for >
OcclusionExceeded_AtLeast(duration, c) == duration >= c.occlusionThreshold

\* duration > config.occlusionThreshold
OcclusionExceeded(duration, c) == duration > c.occlusionThreshold

\* mutant of SampleGuard: the callback does not test destroyed
SampleGuard_Never(s) == FALSE

\* if (t.state.destroyed) return
SampleGuard(s) == s.destroyed

\* ctx.drawImage(video, ...) and getImageData: the callback started for
\* stream k reads the video fed by stream k
drawImage(w, k) ==
    [ w EXCEPT !.media.staleRead = @ \/ k \notin w.media.live ]

\* what the camera showed: the time of the first frame of the contiguous
\* run of blocked frames that the frame drawn at t belongs to, Null if that
\* frame is clear
observeFrame(w, t, mean, variance) ==
    [ w EXCEPT !.media.blockedSince =
                 IF mean < MeanThreshold \/ variance < VarianceThreshold
                 THEN (IF @ = Null THEN t ELSE @)
                 ELSE Null ]

\* mutant of RunStart: every blocked frame restarts the run
RunStart_Restart(s, t) == t

\* if (!t.state.occlusionStart) t.state.occlusionStart = Date.now()
RunStart(s, t) == IF s.occlusionStart = Null THEN t ELSE s.occlusionStart

\* the body of the sampling callback of stream k for one frame
Sample(w, t, k, mean, variance) ==
    IF SampleGuard(w.state) THEN w
    ELSE IF isBlocked(mean, variance)
    THEN LET w0 == observeFrame(drawImage(w, k), t, mean, variance)
             w1 == [ w0 EXCEPT !.state.occlusionStart = RunStart(w0.state, t) ]
             duration == t - w1.state.occlusionStart
             w2 == IF InWarnWindow(duration)
                   THEN [ w1 EXCEPT !.dom.border = BorderRed ] ELSE w1
         IN IF OcclusionExceeded(duration, w2.config)
            THEN triggerDestruction(w2, "Camera Obstructed / Light Blocked")
            ELSE w2
    ELSE [ observeFrame(drawImage(w, k), t, mean, variance) EXCEPT
             !.state.occlusionStart = Null, !.dom.border = "none" ]

\* the callback of the sampling interval started for stream k
CameraTick(k, mean, variance) ==
    /\ dom.location = "page"
    /\ <<mean, variance>> \in Env.frames
    /\ intervals.camera[k] # Null
    /\ intervals.camera[k] <= now
    /\ Commit(Sample(World, now, k, mean, variance))
    /\ intervals' = [ intervals EXCEPT !.camera[k] = @ + CameraInterval ]
    /\ UNCHANGED <<boot, now>>

\* the sampling callback of stream k, due now, is held back
CameraTickLate(k) ==
    /\ dom.location = "page"
    /\ ~state.destroyed
    /\ intervals.camera[k] # Null
    /\ intervals.camera[k] <= now
    /\ now < MaxTime
    /\ intervals' = [ intervals EXCEPT !.camera[k] = @ + CameraInterval ]
    /\ UNCHANGED <<env, boot, config, state, media, dom, net, rev, now>>

----------------------------------------------------------------------------
(* The destroy request and the redirect *)

\* the destroy fetch settles: .finally arms the redirect timeout (a response
\* takes time: none arrives where the clock stands still)
FetchSettled(outcome) ==
    /\ dom.location = "page"
    /\ Env.clock > 0
    /\ net.fetch = "pending"
    /\ Commit([ World EXCEPT !.net.fetch = outcome,
                             !.rev.redirectDue = now + RedirectDelay ])
    /\ UNCHANGED <<boot, intervals, now>>

\* the timeout callback: window.location.replace(homeUrl)
Redirect ==
    /\ dom.location = "page"
    /\ rev.redirectDue # Null
    /\ rev.redirectDue <= now
    /\ Commit([ World EXCEPT !.dom.location = "home", !.rev.redirectDue = Null,
                             !.rev.log = @ \o <<"redirect">> ])
    /\ UNCHANGED <<boot, intervals, now>>

----------------------------------------------------------------------------
(* The clock *)

\* A callback that is due runs, or is held back, before the clock moves on.  The page is
\* followed until MaxTime or its revocation, and after the revocation while
\* the redirect timeout runs.
NothingDue ==
    /\ intervals.idle # Null => intervals.idle > now
    /\ \A k \in Streams : intervals.camera[k] # Null => intervals.camera[k] > now
    /\ rev.redirectDue # Null => rev.redirectDue > now

Advance ==
    /\ dom.location = "page"
    /\ NothingDue
    /\ (~state.destroyed /\ now < MaxTime) \/ rev.redirectDue # Null
    /\ now' = now + CameraInterval
    /\ UNCHANGED <<env, boot, config, state, intervals, media, dom, net, rev>>

----------------------------------------------------------------------------

Next ==
    \/ \E d \in BOOLEAN : init(d)
    \/ initVerification
    \/ ManualCameraStart
    \/ CameraGranted
    \/ CameraFailed
    \/ OnSubmit
    \/ OnSubmitButtonClick
    \/ \E tag \in {"A", "DIV"} : OnClick(tag)
    \/ \E h \in BOOLEAN : OnVisibilityChange(h)
    \/ OnBlur
    \/ \E key \in UpKeys : OnKeyUp(key)
    \/ \E c \in AllChords : OnKeyDown(c[1], c[2], c[3], c[4])
    \/ OnContextMenu
    \/ OnSelectStart
    \/ OnMouseMove
    \/ OnMouseDown
    \/ OnCopy
    \/ OnBeforeUnload
    \/ IdleTick
    \/ IdleTickLate
    \/ \E k \in Streams, f \in AllFrames : CameraTick(k, f[1], f[2])
    \/ \E k \in Streams : CameraTickLate(k)
    \/ \E o \in {"fulfilled", "rejected"} : FetchSettled(o)
    \/ Redirect
    \/ Advance

Spec == Init /\ [][Next]_vars

\* The event loop runs a due callback and lets time pass; the network need
\* not answer, and no DOM event need ever be delivered.
FairSpec ==
    /\ Spec
    /\ WF_vars(IdleTick)
    /\ WF_vars(\E k \in Streams, f \in AllFrames : CameraTick(k, f[1], f[2]))
    /\ WF_vars(Redirect)
    /\ WF_vars(Advance)

----------------------------------------------------------------------------
(* Claims *)

IdleReason == "Idle Timeout (6s)"
OcclusionReason == "Camera Obstructed / Light Blocked"
CameraReason == "Camera Access Denied or Failed"

\* C1: whatever events, ticks and camera outcomes occur, the revocation
\* sequence runs at most once, and destroyed, once true, stays true.
C1_RevokedAtMostOnce ==
    /\ [](rev.count <= 1 /\ (rev.count = 1 <=> state.destroyed))
    /\ [][state.destroyed => state.destroyed' /\ rev.count' = rev.count]_vars

\* a revoked page on which the destroy request was answered and time went on
C1_Witness ==
    state.destroyed /\ rev.count = 1 /\ net.fetch = "rejected" /\ now > state.lastActivity

\* C2 (as claimed): a rejected getUserMedia sends one alert and runs the
\* revocation sequence once, with the camera reason.
C2_CameraFailureRevokes ==
    [][ CameraFailed /\ ~state.destroyed
        => /\ net.alerts' = net.alerts + 1
           /\ rev.count' = rev.count + 1
           /\ rev.reason' = CameraReason ]_vars

\* C3 (as claimed): in default mode a tab-hidden or blur event revokes
\* unless the monitor is destroyed or submitting.
C3_DefaultModeAlwaysRevokes ==
    boot = "init" /\ ~state.destroyed /\ ~state.submitting
    => /\ blurListener(World).state.destroyed
       /\ visibilityListener(World, TRUE).state.destroyed

\* C3 (amended): in default mode a tab-hidden or blur event runs the
\* revocation exactly when the monitor is not destroyed, not submitting and
\* monitoring is active (a capture stream has been obtained).
C3_DefaultModeRevokesWhenMonitoring ==
    boot = "init" =>
        LET b == blurListener(World)
            v == visibilityListener(World, TRUE)
            open == ~state.destroyed /\ ~state.submitting /\ state.monitoringActive
        IN /\ b.rev.count = rev.count + 1 <=> open
           /\ v.rev.count = rev.count + 1 <=> open
           /\ open => /\ b.state.destroyed /\ b.rev.reason = "Window Focus Lost"
                      /\ v.state.destroyed /\ v.rev.reason = "Tab Switch / Minimize"
           /\ ~open => b = World /\ v = World

\* a default-mode page revoked by a blur event
C3_Witness == boot = "init" /\ state.destroyed /\ rev.reason = "Window Focus Lost"

\* C4: on a page started with initVerification the tab-hidden, blur and
\* unload listeners change nothing, in every state, and no revocation
\* carries one of their reasons.
C4_VerificationTolerates ==
    boot = "initVerification" =>
        /\ blurListener(World) = World
        /\ \A h \in BOOLEAN : visibilityListener(World, h) = World
        /\ beforeunloadListener(World) = World
        /\ rev.reason \notin {"Window Focus Lost", "Tab Switch / Minimize", "Page Reload/Unload"}

\* a verification page whose camera is running and that any threat would revoke
C4_Witness ==
    /\ boot = "initVerification"
    /\ state.monitoringActive /\ ~state.destroyed /\ ~state.submitting
    /\ now > LoadTime

\* C5: submitting is never cleared, and while it is set on a monitor that is
\* not destroyed no step revokes.
C5_SubmittingSuppresses ==
    [][ /\ state.submitting => state.submitting'
        /\ state.submitting /\ ~state.destroyed => ~state.destroyed' /\ rev' = rev ]_vars

\* submitting set, monitoring active, and a blocked run already past the
\* threshold: the occlusion threat was reported and suppressed
C5_Witness ==
    /\ state.submitting /\ ~state.destroyed /\ state.monitoringActive
    /\ state.occlusionStart # Null
    /\ now - state.occlusionStart > config.occlusionThreshold + CameraInterval

C7_RedirectAlways == (rev.count > 0) ~> (dom.location = "home")

\* what the code does provide: once the destroy request has settled, either
\* way, the browser is redirected
SettledLeadsToRedirect ==
    (net.fetch \in {"fulfilled", "rejected"}) ~> (dom.location = "home")

\* C8: on an idle tick with monitoring active, not submitting and not
\* destroyed, the revocation runs, with the idle reason, exactly when
\* now - lastActivity > idleTimeout.
C8_IdleTickRevokes ==
    [][ IdleTick /\ state.monitoringActive /\ ~state.submitting /\ ~state.destroyed
        => /\ state.destroyed' <=> now - state.lastActivity > config.idleTimeout
           /\ state.destroyed' => rev.count' = 1 /\ rev.reason' = IdleReason
           /\ ~state.destroyed' => rev' = rev ]_vars

\* a page revoked by the idle tick
C8_Witness == state.destroyed /\ rev.reason = IdleReason /\ ~config.disableIdle

\* C9: with disableIdle set, or on a verification page, there is no idle
\* interval and no revocation carries the idle reason.
C9_NoIdleWhenDisabled ==
    config.disableIdle \/ boot = "initVerification"
    => intervals.idle = Null /\ rev.reason # IdleReason

\* idle detection off, the monitor live, and the viewer inactive for so long
\* that an idle tick, if there were one, would have found the timeout exceeded
C9_Witness ==
    /\ config.disableIdle \/ boot = "initVerification"
    /\ state.monitoringActive /\ ~state.submitting /\ ~state.destroyed
    /\ now - state.lastActivity >= config.idleTimeout + IdleInterval

\* C10 (as claimed): a sampling tick on a blocked frame revokes exactly when
\* now - occlusionStart > occlusionThreshold.
C10_OcclusionTickRevokes ==
    [][ \A k \in Streams, f \in AllFrames :
          CameraTick(k, f[1], f[2]) /\ isBlocked(f[1], f[2]) /\ ~state.destroyed
          => (state.destroyed' <=> now - state.occlusionStart' > config.occlusionThreshold) ]_vars

\* C10 (amended): a sampling tick on a blocked frame, with submitting not
\* set, revokes (with the obstruction reason) exactly when
\* now - occlusionStart > occlusionThreshold; with submitting set it never revokes.
C10_OcclusionTickRevokesUnlessSubmitting ==
    [][ \A k \in Streams, f \in AllFrames :
          CameraTick(k, f[1], f[2]) /\ isBlocked(f[1], f[2]) /\ ~state.destroyed
          => /\ state.occlusionStart' # Null
             /\ ~state.submitting
                => /\ state.destroyed' <=> now - state.occlusionStart' > config.occlusionThreshold
                   /\ state.destroyed' => rev.count' = 1 /\ rev.reason' = OcclusionReason
             /\ state.submitting => ~state.destroyed' ]_vars

\* a page revoked by the sampling tick under a threshold other than the default
C10_Witness ==
    /\ state.destroyed /\ rev.reason = OcclusionReason
    /\ config.occlusionThreshold # OcclusionThresholdDefault

\* C11: once destroyed is true, an idle tick and a sampling tick change
\* nothing: no revocation, no read of a capture stream, occlusionStart and
\* the border as they were; and no frame is ever drawn from a stopped stream.
C11_TicksAfterDestroyedAreNoOps ==
    /\ [](~media.staleRead)
    /\ [][ state.destroyed
           /\ (IdleTick \/ \E k \in Streams, f \in AllFrames : CameraTick(k, f[1], f[2]))
           => UNCHANGED <<config, state, media, dom, net, rev>> ]_vars

\* revoked by obstruction with a run that went on: since the revocation a
\* sampling tick has come due and run on a blocked frame
C11_Witness ==
    \E k \in Streams :
        /\ state.destroyed /\ rev.reason = OcclusionReason
        /\ k \notin media.live /\ k = state.cameraStream
        /\ intervals.camera[k] > now
        /\ now > state.occlusionStart + config.occlusionThreshold + CameraInterval

\* C12 (as claimed): once the revocation sequence has run, no capture stream
\* that initCamera obtained is left with live tracks.
C12_EveryStreamReleased == state.destroyed => media.live = {}

\* what the code does provide: the revocation stops the tracks of the one
\* stream held in state.cameraStream at that moment
CurrentStreamReleased ==
    [][ ~state.destroyed /\ state.destroyed'
        => media.live' = media.live \ {state.cameraStream} ]_vars

RevocationOrder == <<"border", "stopTracks", "lockdownUI", "beacon", "fetch", "redirect">>

Pos(step) == CHOOSE i \in 1..Len(RevocationOrder) : RevocationOrder[i] = step

InOrder(log) ==
    \A i, j \in 1..Len(log) : i < j => Pos(log[i]) < Pos(log[j])

\* C14 (as claimed): the revocation performs its steps in the order border,
\* stop tracks, lockdown message, beacon, fetch, redirect, and a step that
\* fails does not keep the later ones from being performed: the fetch
\* delivery is made in every revocation.
C14_StepsInOrderEachBestEffort ==
    rev.count > 0
    => /\ InOrder(rev.log)
       /\ \E i \in 1..Len(rev.log) : rev.log[i] = "fetch"

\* what the code does provide: the steps that are reached are reached in
\* that order, and all of them are unless one throws
StepsInOrderUnlessThrown ==
    rev.count > 0
    => /\ InOrder(rev.log)
       /\ rev.log[1] = "border"
       /\ ~rev.thrown => \E i \in 1..Len(rev.log) : rev.log[i] = "fetch"
       /\ dom.location = "home" => rev.log[Len(rev.log)] = "redirect"

\* C15: after every sampling tick run while not destroyed, occlusionStart is
\* none if the frame was clear and otherwise the time of the first blocked
\* frame of the current contiguous run; so a clear frame restarts the run,
\* and a run never begins before the last clear frame.
C15_OcclusionStartTracksRun ==
    /\ [](state.occlusionStart = media.blockedSince)
    /\ [][ \A k \in Streams, f \in AllFrames :
             CameraTick(k, f[1], f[2]) /\ ~state.destroyed
             => /\ ~isBlocked(f[1], f[2]) => state.occlusionStart' = Null
                /\ isBlocked(f[1], f[2]) /\ state.occlusionStart = Null
                   => state.occlusionStart' = now
                /\ isBlocked(f[1], f[2]) /\ state.occlusionStart # Null
                   => state.occlusionStart' = state.occlusionStart ]_vars

\* clear frames were sampled (border "none"), the last of them well after
\* sampling began, and the run that began after it has lasted two ticks
C15_Witness ==
    /\ ~state.destroyed /\ dom.border = "none"
    /\ state.occlusionStart # Null
    /\ now = state.occlusionStart + 2 * CameraInterval
    /\ state.occlusionStart >= LoadTime + 4 * CameraInterval

\* C16 (as claimed): on a sampling tick whose run has lasted more than
\* 1000 ms and less than the configured threshold the red border is shown and
\* nothing is revoked; on a tick whose run has lasted at most 1000 ms the
\* border is left as it was; a clear frame clears the border and the run.
C16_WarningUpToThreshold ==
    [][ \A k \in Streams, f \in AllFrames :
          CameraTick(k, f[1], f[2]) /\ ~state.destroyed
          => LET duration == now - state.occlusionStart' IN
             /\ isBlocked(f[1], f[2]) /\ duration > WarnAfter
                                      /\ duration < config.occlusionThreshold
                => dom.border' = BorderRed /\ ~state.destroyed'
             /\ isBlocked(f[1], f[2]) /\ duration <= WarnAfter
                => dom.border' = dom.border
             /\ ~isBlocked(f[1], f[2])
                => dom.border' = "none" /\ state.occlusionStart' = Null ]_vars

\* what the code does provide: the window in which a tick shows the warning
\* is 1000 ms < duration < 3000 ms whatever the configured threshold; outside
\* it a tick on a blocked frame leaves the border as it was, unless it revokes
WarningWindowAsCoded ==
    [][ \A k \in Streams, f \in AllFrames :
          CameraTick(k, f[1], f[2]) /\ ~state.destroyed /\ isBlocked(f[1], f[2])
          => LET duration == now - state.occlusionStart' IN
             /\ duration > WarnAfter /\ duration < WarnBefore => dom.border' = BorderRed
             /\ ~(duration > WarnAfter /\ duration < WarnBefore) /\ ~state.destroyed'
                => dom.border' = dom.border ]_vars

\* C17: sendAlert sends one alert request exactly when destroyed is false,
\* whatever monitoringActive and submitting are; a Print-Screen key release
\* sends its alert exactly when destroyed is false before the event, also
\* when it goes on to revoke and when its threat report is a no-op.
C17_AlertUnlessDestroyed ==
    LET sent == IF state.destroyed THEN 0 ELSE 1
        u == keyupListener(World, "PrintScreen")
        c == cameraCatch(World)
    IN /\ sendAlert(World) = [ World EXCEPT !.net.alerts = @ + sent ]
       /\ u.net.alerts = net.alerts + sent
       /\ c.net.alerts = net.alerts + sent
       /\ u.state.destroyed <=> state.destroyed \/ ~DestructionGuard(state)
       /\ DestructionGuard(state) => u = sendAlert(World)

\* a page in default mode, monitoring and submitting, not revoked, on which a
\* Print-Screen release sent its alert
C17_Witness ==
    /\ boot = "init" /\ state.monitoringActive /\ state.submitting
    /\ ~state.destroyed /\ net.alerts > 0

\* the keyboard inputs that match none of the threat shortcuts
QuietChords ==
    { c \in AllChords : ~(\/ IsDevTools(c[1], c[2], c[3], c[4])
                          \/ IsPrint(c[1], c[2], c[3], c[4])
                          \/ IsSave(c[1], c[2], c[3], c[4])
                          \/ IsSnip(c[1], c[2], c[3], c[4])) }
QuietUpKeys == UpKeys \ {"PrintScreen"}

\* C18 (as claimed): a keydown or keyup that matches no threat shortcut, a
\* pointer move and a pointer down each set lastActivity to the current time
\* and do nothing else.
C18_InputMarksActivity ==
    boot # "loaded" =>
        LET marked == [ World EXCEPT !.state.lastActivity = now ] IN
        /\ \A c \in QuietChords : keydownListener(World, now, c[1], c[2], c[3], c[4]) = marked
        /\ \A key \in QuietUpKeys : keyupListener(World, key) = marked
        /\ resetIdle(World, now) = marked

\* what the code does provide: keydown, pointer move and pointer down mark
\* activity; a keyup that is not Print-Screen changes nothing
KeyUpMarksNothing ==
    boot # "loaded" =>
        LET marked == [ World EXCEPT !.state.lastActivity = now ] IN
        /\ \A c \in QuietChords : keydownListener(World, now, c[1], c[2], c[3], c[4]) = marked
        /\ \A key \in QuietUpKeys : keyupListener(World, key) = World
        /\ resetIdle(World, now) = marked

\* C19: a keydown matching a dev-tools, print, save or snipping shortcut and
\* a copy event have their default action suppressed in every monitor state
\* (not yet monitoring, submitting, destroyed included), and before the
\* threat is reported: the suppression stands when the revocation sequence
\* the report starts ends in an exception; other keydowns keep their default.
C19_DefaultSuppressedFirst ==
    boot # "loaded" =>
        /\ \A c \in AllChords \ QuietChords :
              LET d == keydownListener(World, now, c[1], c[2], c[3], c[4])
              IN /\ d.event.defaultPrevented
                 /\ d.state.destroyed <=> state.destroyed \/ ~DestructionGuard(state)
        /\ \A c \in QuietChords :
              ~keydownListener(World, now, c[1], c[2], c[3], c[4]).event.defaultPrevented
        /\ copyListener(World).event.defaultPrevented
        /\ copyListener(World).state.destroyed <=> state.destroyed \/ ~DestructionGuard(state)

\* the page was revoked by a Win+Shift+S keydown and the revocation sequence
\* it started ended in an exception
C19_Witness ==
    /\ state.destroyed /\ rev.thrown
    /\ rev.reason = "Snipping Tool Attempt (Win+Shift+S)"

\* C20: lastActivity is the load time until an activity event (keydown,
\* pointer move, pointer down) sets it to the current time, and nothing else
\* changes it, the grant of the camera included; an idle tick before
\* monitoring is active changes nothing, however long the viewer has been
\* inactive; an idle tick with monitoring active, not submitting and not
\* destroyed revokes whenever now - lastActivity exceeds idleTimeout,
\* whenever monitoring began.
C20_IdleMeasuredFromLastActivity ==
    /\ state.lastActivity = LoadTime
    /\ [][ state.lastActivity' # state.lastActivity
           => /\ state.lastActivity' = now
              /\ \/ OnMouseMove \/ OnMouseDown
                 \/ \E c \in AllChords : OnKeyDown(c[1], c[2], c[3], c[4]) ]_vars
    /\ [][ IdleTick /\ ~state.monitoringActive
           => UNCHANGED <<config, state, media, dom, net, rev>> ]_vars
    /\ [][ /\ IdleTick
           /\ state.monitoringActive /\ ~state.submitting /\ ~state.destroyed
           /\ now - state.lastActivity > config.idleTimeout
           => state.destroyed' /\ rev.reason' = IdleReason ]_vars

\* before consent, an idle tick has just run (the next is due one period
\* from now) with the timeout exceeded, and nothing was revoked
C20_Witness ==
    /\ ~state.monitoringActive /\ media.pending > 0 /\ rev.count = 0
    /\ intervals.idle = now + IdleInterval
    /\ now - state.lastActivity > config.idleTimeout

====
